---- MODULE Spec2Model ----
(***************************************************************************)
(* State-machine model of src/main.py: an in-memory FastAPI service with   *)
(* a user store, three registries (clientes, facturas, productos) and a    *)
(* CSV export / import of clientes.                                        *)
(*                                                                         *)
(* Text is a sequence of one-character strings, so that formatting         *)
(* (str, ','.join) and parsing (splitlines, csv split, int coercion) are   *)
(* computed rather than assumed.  A Python dict is a sequence of           *)
(* [k, v] entries in insertion order.                                      *)
(***************************************************************************)
EXTENDS Integers, Sequences, FiniteSets, TLC

\* ------------------------------------------------------------------ bounds
MaxId == 2          \* cliente ids are 1..MaxId
MaxFacturas == 2    \* the facturas of an export have ids 10..9+MaxFacturas
MaxRows == 2        \* an uploaded file has at most MaxRows data lines
MaxWrites == 2      \* writes made while one export is streaming
MaxReqs == 2        \* create requests the server accepts for concurrent handling

\* ------------------------------------------------------------- text model
Digits == <<"0", "1", "2", "3", "4", "5", "6", "7", "8", "9">>

RECURSIVE Str(_)
\* str(n) for a non-negative int
Str(n) == IF n < 10 THEN <<Digits[n + 1]>>
          ELSE Str(n \div 10) \o <<Digits[(n % 10) + 1]>>

IsDigit(c) == \E d \in 1..10 : Digits[d] = c
DigitVal(c) == (CHOOSE d \in 1..10 : Digits[d] = c) - 1

RECURSIVE IntOf(_)
IntOf(t) == IF Len(t) = 0 THEN 0
            ELSE 10 * IntOf(SubSeq(t, 1, Len(t) - 1)) + DigitVal(t[Len(t)])

\* pydantic's coercion of a str field value to int: ok only for digit strings
ParseInt(t) == IF Len(t) > 0 /\ \A i \in 1..Len(t) : IsDigit(t[i])
               THEN [ok |-> TRUE, val |-> IntOf(t)]
               ELSE [ok |-> FALSE, val |-> 0]

RECURSIVE Join(_, _)
\* sep.join(parts)
Join(parts, sep) == IF Len(parts) = 0 THEN <<>>
                    ELSE IF Len(parts) = 1 THEN parts[1]
                    ELSE parts[1] \o sep \o Join(Tail(parts), sep)

RECURSIVE IndexFrom(_, _, _)
\* the first position >= i of the character c in t, 0 when there is none
IndexFrom(t, c, i) == IF i > Len(t) THEN 0
                      ELSE IF t[i] = c THEN i
                      ELSE IndexFrom(t, c, i + 1)

RECURSIVE SplitFrom(_, _, _)
SplitFrom(t, c, i) ==
    LET p == IndexFrom(t, c, i) IN
    IF p = 0 THEN <<SubSeq(t, i, Len(t))>>
    ELSE <<SubSeq(t, i, p - 1)>> \o SplitFrom(t, c, p + 1)

\* t.split(c): the pieces of t between occurrences of the character c
SplitOn(t, c) == SplitFrom(t, c, 1)

\* str.splitlines(): like split on newline, without a trailing empty piece
splitlines(t) ==
    IF Len(t) = 0 THEN <<>>
    ELSE IF t[Len(t)] = "\n" THEN SplitOn(SubSeq(t, 1, Len(t) - 1), "\n")
    ELSE SplitOn(t, "\n")

\* ------------------------------------------------------------- dict model
Has(db, k) == \E i \in 1..Len(db) : db[i].k = k
Get(db, k) == db[CHOOSE i \in 1..Len(db) : db[i].k = k].v
\* db[k] = v: an existing key keeps its position, a new key goes last
Put(db, k, v) ==
    IF Has(db, k)
    THEN [i \in 1..Len(db) |-> IF db[i].k = k THEN [k |-> k, v |-> v] ELSE db[i]]
    ELSE Append(db, [k |-> k, v |-> v])
Values(db) == [i \in 1..Len(db) |-> db[i].v]
Keys(db) == {db[i].k : i \in 1..Len(db)}

\* ---------------------------------------------------------- request data
ClienteIds == 1..MaxId
FacturaIds == 10..(9 + MaxFacturas)

Cliente(id, v) ==
    [id |-> id,
     documento  |-> IF v = 1 THEN <<"D", "1">> ELSE <<"D", "2">>,
     first_name |-> IF v = 1 THEN <<"A", "n", "a">> ELSE <<"B", "o", "b">>,
     last_name  |-> IF v = 1 THEN <<"L", "e", "e">> ELSE <<"N", "g">>,
     email      |-> IF v = 1 THEN <<"a", "@", "x">> ELSE <<"b", "@", "x">>,
     password   |-> IF v = 1 THEN <<"p">> ELSE <<"q">>]
\* every id in its first variant, id 1 also in its second
Clientes == {Cliente(id, 1) : id \in ClienteIds} \cup {Cliente(1, 2)}

\* a factura of variant 1 belongs to cliente 1, one of variant 2 to no cliente
Factura(id, v) ==
    [id |-> id,
     client_id    |-> IF v = 1 THEN 1 ELSE 99,
     company_name |-> <<"A", "c", "m", "e">>,
     nit          |-> <<"N", "1">>,
     code         |-> <<"C", "1">>]
\* two facturas that compete for one id
Facturas == {Factura(10, 1), Factura(10, 2)}
\* facturas of distinct ids: number 11 belongs to no cliente, the others to cliente 1
ExportFacturas == {Factura(id, IF id = 11 THEN 2 ELSE 1) : id \in FacturaIds}

Producto(id, v) ==
    [id |-> id,
     name        |-> IF v = 1 THEN <<"P", "1">> ELSE <<"P", "2">>,
     description |-> <<"d">>]
Productos == {Producto(1, 1), Producto(1, 2)}

\* ------------------------------------------------------------------ state
VARIABLES
    db_users,      \* email -> user_data
    db_clientes,   \* id -> Cliente
    db_facturas,   \* id -> Factura
    db_productos,  \* id -> Producto
    resp,          \* the last HTTP response sent: [op, arg, status, body]
    pending,       \* create requests accepted by the server, handler not yet run
    log,           \* the create requests served from pending, with their outcome
    exp_pc,        \* export: "idle", "streaming" (generate() suspended) or "done"
    exp_rows,      \* export: the list `rows` captured by generate()
    exp_content,   \* export: the string `content` of generate()
    exp_i,         \* export: number of rows generate() has appended
    out,           \* the body of the last completed export, as the caller got it
    exp_snap,      \* history: the registries when the export handler ran
    exp_writes     \* history: registry writes made while the export was streaming

dbs == <<db_users, db_clientes, db_facturas, db_productos>>
raceVars == <<pending, log>>
expVars == <<exp_pc, exp_rows, exp_content, exp_i, out, exp_snap>>
auxVars == <<raceVars, expVars, exp_writes>>
vars == <<db_users, db_clientes, db_facturas, db_productos, resp, pending, log,
          exp_pc, exp_rows, exp_content, exp_i, out, exp_snap, exp_writes>>

Registries(clientes, facturas) == [clientes |-> clientes, facturas |-> facturas]

\* history bookkeeping of a step that may write db_clientes or db_facturas
Observe ==
    exp_writes' = IF /\ exp_pc = "streaming"
                     /\ <<db_clientes', db_facturas'>> # <<db_clientes, db_facturas>>
                  THEN exp_writes + 1
                  ELSE exp_writes

None == "None"

Response(op, arg, status, body) ==
    [op |-> op, arg |-> arg, status |-> status, body |-> body]

Init ==
    /\ db_users = <<>>
    /\ db_clientes = <<>>
    /\ db_facturas = <<>>
    /\ db_productos = <<>>
    /\ resp = Response("none", 0, 0, 0)
    /\ pending = {}
    /\ log = {}
    /\ exp_pc = "idle"
    /\ exp_rows = <<>>
    /\ exp_content = <<>>
    /\ exp_i = 0
    /\ out = <<>>
    /\ exp_snap = Registries(<<>>, <<>>)
    /\ exp_writes = 0

\* ------------------------------------------------------------- registries
create_cliente_upsert(cliente) ==
    /\ db_clientes' = Put(db_clientes, cliente.id, cliente)
    /\ resp' = Response("create_cliente", cliente, 200, cliente)

create_cliente_handler(cliente) ==
    IF Has(db_clientes, cliente.id)
    THEN /\ resp' = Response("create_cliente", cliente, 400, "Client ID already exists")
         /\ UNCHANGED db_clientes
    ELSE /\ db_clientes' = Put(db_clientes, cliente.id, cliente)
         /\ resp' = Response("create_cliente", cliente, 200, cliente)

create_cliente(cliente) ==
    /\ create_cliente_handler(cliente)
    /\ UNCHANGED <<db_users, db_facturas, db_productos, raceVars, expVars>>
    /\ Observe

read_clientes ==
    /\ resp' = Response("read_clientes", 0, 200, Values(db_clientes))
    /\ UNCHANGED <<dbs, auxVars>>

read_cliente(cliente_id) ==
    /\ IF ~Has(db_clientes, cliente_id)
       THEN resp' = Response("read_cliente", cliente_id, 404, "Client not found")
       ELSE resp' = Response("read_cliente", cliente_id, 200, Get(db_clientes, cliente_id))
    /\ UNCHANGED <<dbs, auxVars>>

create_factura_no_check(factura) ==
    /\ db_facturas' = Put(db_facturas, factura.id, factura)
    /\ resp' = Response("create_factura", factura, 200, factura)

create_factura_handler(factura) ==
    IF Has(db_facturas, factura.id)
    THEN /\ resp' = Response("create_factura", factura, 400, "Factura ID already exists")
         /\ UNCHANGED db_facturas
    ELSE /\ db_facturas' = Put(db_facturas, factura.id, factura)
         /\ resp' = Response("create_factura", factura, 200, factura)

create_factura(factura) ==
    /\ create_factura_handler(factura)
    /\ UNCHANGED <<db_users, db_clientes, db_productos, raceVars, expVars>>
    /\ Observe

read_facturas ==
    /\ resp' = Response("read_facturas", 0, 200, Values(db_facturas))
    /\ UNCHANGED <<dbs, auxVars>>

read_factura_inverted(factura_id) ==
    /\ IF Has(db_facturas, factura_id)
       THEN resp' = Response("read_factura", factura_id, 404, "Factura not found")
       ELSE resp' = Response("read_factura", factura_id, 200, None)
    /\ UNCHANGED <<dbs, auxVars>>

read_factura(factura_id) ==
    /\ IF ~Has(db_facturas, factura_id)
       THEN resp' = Response("read_factura", factura_id, 404, "Factura not found")
       ELSE resp' = Response("read_factura", factura_id, 200, Get(db_facturas, factura_id))
    /\ UNCHANGED <<dbs, auxVars>>

create_producto(producto) ==
    /\ IF Has(db_productos, producto.id)
       THEN /\ resp' = Response("create_producto", producto, 400, "Producto ID already exists")
            /\ UNCHANGED db_productos
       ELSE /\ db_productos' = Put(db_productos, producto.id, producto)
            /\ resp' = Response("create_producto", producto, 200, producto)
    /\ UNCHANGED <<db_users, db_clientes, db_facturas, auxVars>>

read_productos ==
    /\ resp' = Response("read_productos", 0, 200, Values(db_productos))
    /\ UNCHANGED <<dbs, auxVars>>

read_producto(producto_id) ==
    /\ IF ~Has(db_productos, producto_id)
       THEN resp' = Response("read_producto", producto_id, 404, "Producto not found")
       ELSE resp' = Response("read_producto", producto_id, 200, Get(db_productos, producto_id))
    /\ UNCHANGED <<dbs, auxVars>>

\* ------------------------------------------------------------- user store
Emails == {<<"a", "@", "x">>, <<"b", "@", "x">>}
Passwords == {<<"p">>, <<"q">>}
Salts == {"s1", "s2"}
UserCreates == [email : Emails, password : Passwords]

\* passlib bcrypt: a salted one-way hash; the salt is kept in the hash string
bcrypt_hash(password, salt) == [salt |-> salt, digest |-> <<salt, password>>]
bcrypt_verify(password, hashed) == bcrypt_hash(password, hashed.salt) = hashed

get_user(db, email) ==
    IF Has(db, email) THEN [found |-> TRUE, user |-> Get(db, email)]
    ELSE [found |-> FALSE, user |-> None]

register_no_check(user, salt) ==
    /\ LET hashed_password == bcrypt_hash(user.password, salt)
           user_data == [id |-> Len(db_users) + 1, email |-> user.email,
                         hashed_password |-> hashed_password]
       IN  /\ db_users' = Put(db_users, user.email, user_data)
           /\ resp' = Response("register", user, 200, user_data)
    /\ UNCHANGED <<db_clientes, db_facturas, db_productos, auxVars>>

register(user, salt) ==
    /\ IF Has(db_users, user.email)
       THEN /\ resp' = Response("register", user, 400, "Email already registered")
            /\ UNCHANGED db_users
       ELSE LET hashed_password == bcrypt_hash(user.password, salt)
                user_data == [id |-> Len(db_users) + 1, email |-> user.email,
                              hashed_password |-> hashed_password]
            IN  /\ db_users' = Put(db_users, user.email, user_data)
                /\ resp' = Response("register", user, 200, user_data)
    /\ UNCHANGED <<db_clientes, db_facturas, db_productos, auxVars>>

\* The object FastAPI builds for `form_data: OAuth2PasswordBearer = Depends()`:
\* an instance of the annotated class, made from the request's tokenUrl
\* parameter.  Its attributes are those set by OAuth2PasswordBearer.__init__.
OAuth2PasswordBearer(tokenUrl) ==
    [model |-> [tokenUrl |-> tokenUrl], scheme_name |-> "OAuth2PasswordBearer",
     auto_error |-> TRUE]
HasAttr(obj, name) == name \in DOMAIN obj

\* form is what the caller submits: [username, password, tokenUrl], tokenUrl
\* being None when the request carries no such parameter
login_for_access_token(form) ==
    /\ IF form.tokenUrl = None
       THEN resp' = Response("login_for_access_token", form, 422, "tokenUrl: field required")
       ELSE LET form_data == OAuth2PasswordBearer(form.tokenUrl) IN
            IF ~HasAttr(form_data, "username")
            THEN resp' = Response("login_for_access_token", form, 500, "AttributeError")
            ELSE LET r == get_user(db_users, form_data.username) IN
                 IF r.found /\ bcrypt_verify(form_data.password, r.user.hashed_password)
                 THEN resp' = Response("login_for_access_token", form, 200,
                                       [access_token |-> form_data, token_type |-> "bearer"])
                 ELSE resp' = Response("login_for_access_token", form, 401, "Invalid credentials")
    /\ UNCHANGED <<dbs, auxVars>>

LoginForms == [username : Emails, password : Passwords, tokenUrl : {None, "token"}]

NextUsers ==
    \/ \E user \in UserCreates, salt \in Salts : register(user, salt)
    \/ \E form \in LoginForms : login_for_access_token(form)
    \/ \E producto \in Productos : create_producto(producto)

SpecUsers == Init /\ [][NextUsers]_vars

\* -------------------------------------------------------------- CSV export
headers == <<<<"I", "D">>, <<"D", "o", "c", "u", "m", "e", "n", "t", "o">>, <<"N", "o", "m", "b", "r", "e", " ", "C", "o", "m", "p", "l", "e", "t", "o">>, <<"C", "a", "n", "t", "i", "d", "a", "d", " ", "d", "e", " ", "F", "a", "c", "t", "u", "r", "a", "s">>>>

HeaderLine == Join(headers, <<",">>) \o <<"\n">>

cantidad_facturas_all(cliente_id) == Len(db_facturas)

\* len([f for f in db_facturas.values() if f.client_id == cliente_id])
cantidad_facturas(cliente_id) ==
    Cardinality({i \in 1..Len(db_facturas) : db_facturas[i].v.client_id = cliente_id})

\* the list appended to `rows` for one item of db_clientes.items()
ExportRow(item) ==
    <<item.v.id, item.v.documento,
      item.v.first_name \o <<" ">> \o item.v.last_name,
      cantidad_facturas(item.k)>>

\* f"{','.join(map(str, row))}\n"
RowLine(row) == Join(<<Str(row[1]), row[2], row[3], Str(row[4])>>, <<",">>) \o <<"\n">>

\* the handler: builds `rows` from the registries and returns the
\* StreamingResponse; generate() has not run yet
export_clients_csv ==
    /\ exp_pc # "streaming"
    /\ exp_rows' = [i \in 1..Len(db_clientes) |-> ExportRow(db_clientes[i])]
    /\ exp_pc' = "streaming"
    /\ exp_i' = 0
    /\ exp_content' = <<>>
    /\ out' = <<>>
    /\ resp' = Response("export_clients_csv", 0, 200, "clientes.csv")
    /\ exp_snap' = Registries(db_clientes, db_facturas)
    /\ exp_writes' = 0
    /\ UNCHANGED <<dbs, raceVars>>

CurrentRowLive(i) ==
    IF i <= Len(db_clientes) THEN ExportRow(db_clientes[i]) ELSE exp_rows[i]

\* the element of `rows` the loop of generate() is at
CurrentRow(i) == exp_rows[i]

\* `content` once generate() has started: the header line, then what was added
StartedContent == IF exp_i = 0 THEN HeaderLine ELSE exp_content

\* generate() from one suspension (or its start) to the next `await`:
\* one row is appended to content
generate_step ==
    /\ exp_pc = "streaming"
    /\ exp_i < Len(exp_rows)
    /\ exp_content' = StartedContent \o RowLine(CurrentRow(exp_i + 1))
    /\ exp_i' = exp_i + 1
    /\ UNCHANGED <<dbs, resp, raceVars, exp_pc, exp_rows, out, exp_snap, exp_writes>>

\* generate() leaves the loop and yields content, the whole body at once
generate_yield ==
    /\ exp_pc = "streaming"
    /\ exp_i = Len(exp_rows)
    /\ out' = StartedContent
    /\ exp_content' = StartedContent
    /\ exp_pc' = "done"
    /\ UNCHANGED <<dbs, resp, raceVars, exp_rows, exp_i, exp_snap, exp_writes>>

\* -------------------------------------------------------------- CSV import
InvalidByte == "0xFF"

\* bytes.decode("utf-8"): the uploaded bytes are characters or InvalidByte
decode(file) ==
    IF \E i \in 1..Len(file) : file[i] = InvalidByte
    THEN [ok |-> FALSE, text |-> <<>>]
    ELSE [ok |-> TRUE, text |-> file]

Min(a, b) == IF a < b THEN a ELSE b

\* one dict of csv.DictReader: the cells keyed by the field names; a short
\* line leaves its last keys without a value, a long one has surplus cells
\* (which DictReader stores under the key None)
RowDict(fieldnames, cells) ==
    [fields |-> [name \in {fieldnames[j] : j \in 1..Min(Len(fieldnames), Len(cells))} |->
                    cells[CHOOSE j \in 1..Min(Len(fieldnames), Len(cells)) :
                              fieldnames[j] = name
                              /\ \A j2 \in (j + 1)..Min(Len(fieldnames), Len(cells)) :
                                    fieldnames[j2] # name]],
     surplus |-> Len(cells) > Len(fieldnames)]

\* the cells csv.reader makes of one line; an empty line has none
CsvCells(line) == IF Len(line) = 0 THEN <<>> ELSE SplitOn(line, ",")

\* csv.DictReader(lines): the first line names the fields, every later line
\* that is not empty is one row
DictReader(lines) ==
    IF Len(lines) = 0 THEN <<>>
    ELSE LET fieldnames == CsvCells(lines[1])
             data == SelectSeq(Tail(lines), LAMBDA l : Len(l) > 0)
         IN  [j \in 1..Len(data) |-> RowDict(fieldnames, CsvCells(data[j]))]

\* the field names of the Cliente model
F_ID == <<"i", "d">>
F_DOCUMENTO == <<"d", "o", "c", "u", "m", "e", "n", "t", "o">>
F_FIRST == <<"f", "i", "r", "s", "t", "_", "n", "a", "m", "e">>
F_LAST == <<"l", "a", "s", "t", "_", "n", "a", "m", "e">>
F_EMAIL == <<"e", "m", "a", "i", "l">>
F_PASSWORD == <<"p", "a", "s", "s", "w", "o", "r", "d">>
ClienteFields == <<F_ID, F_DOCUMENTO, F_FIRST, F_LAST, F_EMAIL, F_PASSWORD>>

\* Cliente(**row): every field of the model must be there, id must be an int;
\* keys that are no field of the model are ignored
ClienteFromRow(row) ==
    IF row.surplus
    THEN [ok |-> FALSE, error |-> "TypeError"]
    ELSE IF \E j \in 1..Len(ClienteFields) : ClienteFields[j] \notin DOMAIN row.fields
    THEN [ok |-> FALSE, error |-> "ValidationError"]
    ELSE IF ~ParseInt(row.fields[F_ID]).ok
    THEN [ok |-> FALSE, error |-> "ValidationError"]
    ELSE [ok |-> TRUE,
          cliente |-> [id |-> ParseInt(row.fields[F_ID]).val,
                       documento  |-> row.fields[F_DOCUMENTO],
                       first_name |-> row.fields[F_FIRST],
                       last_name  |-> row.fields[F_LAST],
                       email      |-> row.fields[F_EMAIL],
                       password   |-> row.fields[F_PASSWORD]]]

RECURSIVE LoadRowsSkipInvalid(_, _, _)
LoadRowsSkipInvalid(db, rows, i) ==
    IF i > Len(rows) THEN [db |-> db, ok |-> TRUE, error |-> None]
    ELSE LET c == ClienteFromRow(rows[i]) IN
         IF ~c.ok THEN LoadRowsSkipInvalid(db, rows, i + 1)
         ELSE LoadRowsSkipInvalid(Put(db, c.cliente.id, c.cliente), rows, i + 1)

RECURSIVE LoadRowsInsertOnly(_, _, _)
LoadRowsInsertOnly(db, rows, i) ==
    IF i > Len(rows) THEN [db |-> db, ok |-> TRUE, error |-> None]
    ELSE LET c == ClienteFromRow(rows[i]) IN
         IF ~c.ok THEN [db |-> db, ok |-> FALSE, error |-> c.error]
         ELSE IF Has(db, c.cliente.id) THEN LoadRowsInsertOnly(db, rows, i + 1)
         ELSE LoadRowsInsertOnly(Put(db, c.cliente.id, c.cliente), rows, i + 1)

RECURSIVE LoadRowsAllOrNothing(_, _, _)
LoadRowsAllOrNothing(db, rows, i) ==
    IF \E j \in i..Len(rows) : ~ClienteFromRow(rows[j]).ok
    THEN [db |-> db, ok |-> FALSE, error |-> "ValidationError"]
    ELSE IF i > Len(rows) THEN [db |-> db, ok |-> TRUE, error |-> None]
    ELSE LoadRowsAllOrNothing(Put(db, ClienteFromRow(rows[i]).cliente.id,
                                  ClienteFromRow(rows[i]).cliente), rows, i + 1)

RECURSIVE LoadRows(_, _, _)
\* the loop `for row in reader`, from row i on: each row is stored as soon as
\* it is read; a row that Cliente() rejects raises and ends the loop
LoadRows(db, rows, i) ==
    IF i > Len(rows) THEN [db |-> db, ok |-> TRUE, error |-> None]
    ELSE LET c == ClienteFromRow(rows[i]) IN
         IF ~c.ok THEN [db |-> db, ok |-> FALSE, error |-> c.error]
         ELSE LoadRows(Put(db, c.cliente.id, c.cliente), rows, i + 1)

upload_clients_csv(file) ==
    /\ LET content == decode(file) IN
       IF ~content.ok
       THEN /\ resp' = Response("upload_clients_csv", file, 500, "UnicodeDecodeError")
            /\ UNCHANGED db_clientes
       ELSE LET reader == DictReader(splitlines(content.text))
                loaded == LoadRows(db_clientes, reader, 1)
            IN  /\ db_clientes' = loaded.db
                /\ resp' = IF loaded.ok
                           THEN Response("upload_clients_csv", file, 200,
                                         "Clientes cargados exitosamente")
                           ELSE Response("upload_clients_csv", file, 500, loaded.error)
    /\ UNCHANGED <<db_users, db_facturas, db_productos, raceVars, expVars>>
    /\ Observe

\* the files callers upload: a header line and up to MaxRows data lines
CsvLine(cells) == Join(cells, <<",">>) \o <<"\n">>
CsvFile(fieldnames, rows) ==
    CsvLine(fieldnames) \o
    Join([j \in 1..Len(rows) |-> CsvLine(rows[j])], <<>>)

ClienteCells(c) ==
    <<Str(c.id), c.documento, c.first_name, c.last_name, c.email, c.password>>
\* a line whose id is no number, and a line that lacks its last cell
BadIdCells == <<<<"x">>, <<"D", "1">>, <<"A", "n", "a">>, <<"L", "e", "e">>,
                <<"a", "@", "x">>, <<"p">>>>
ShortCells == <<<<"1">>, <<"D", "1">>, <<"A", "n", "a">>, <<"L", "e", "e">>,
                <<"a", "@", "x">>>>
\* the clients that uploaded files carry
UploadClientes == {Cliente(1, 1), Cliente(1, 2)}
GoodCells == {ClienteCells(c) : c \in UploadClientes}
UploadCells == GoodCells \cup {BadIdCells, ShortCells}
SeqsUpTo(S, n) == UNION {[1..m -> S] : m \in 0..n}
UploadRowSeqs == SeqsUpTo(UploadCells, MaxRows)
NotUtf8File == <<"i", "d", InvalidByte>>
UploadFiles == {CsvFile(ClienteFields, rows) : rows \in UploadRowSeqs} \cup {NotUtf8File}

NextImport ==
    \/ \E cliente \in {Cliente(1, 1), Cliente(1, 2), Cliente(2, 1)} : create_cliente(cliente)
    \/ \E file \in UploadFiles : upload_clients_csv(file)
    \/ \E id \in ClienteIds : read_cliente(id)

SpecImport == Init /\ [][NextImport]_vars

\* the process starts again: the module-level dictionaries are empty, a running
\* generate() is gone; what callers already received stays with them
restart ==
    /\ db_users' = <<>>
    /\ db_clientes' = <<>>
    /\ db_facturas' = <<>>
    /\ db_productos' = <<>>
    /\ resp' = Response("none", 0, 0, 0)
    /\ pending' = {}
    /\ exp_pc' = IF exp_pc = "streaming" THEN "idle" ELSE exp_pc
    /\ UNCHANGED <<log, exp_rows, exp_content, exp_i, out, exp_snap, exp_writes>>

\* the caller uploads the file a completed export gave them
upload_exported ==
    /\ exp_pc = "done"
    /\ upload_clients_csv(out)

\* files of one well-formed line
OneRowFiles == {CsvFile(ClienteFields, <<cells>>) : cells \in GoodCells}

\* callers write before an export and, at most MaxWrites times, while it is
\* streaming
MayWrite == \/ exp_pc = "idle"
            \/ exp_pc = "streaming" /\ exp_writes < MaxWrites

NextExport ==
    \/ \E cliente \in Clientes : MayWrite /\ create_cliente(cliente)
    \/ \E factura \in ExportFacturas : MayWrite /\ create_factura(factura)
    \/ \E file \in OneRowFiles : MayWrite /\ upload_clients_csv(file)
    \/ export_clients_csv
    \/ generate_step
    \/ generate_yield

SpecExport == Init /\ [][NextExport]_vars

NextRoundTrip ==
    \/ \E cliente \in Clientes : create_cliente(cliente)
    \/ export_clients_csv
    \/ generate_step
    \/ generate_yield
    \/ restart
    \/ upload_exported

SpecRoundTrip == Init /\ [][NextRoundTrip]_vars

\* ------------------------------------------------- request-parallel serving
\* The server accepts requests while others are waiting; the event loop then
\* runs one handler coroutine at a time, each up to its next `await`.
\* create_cliente and create_factura contain no `await`.
CreateRequests == [reg : {"clientes"}, rec : Clientes] \cup [reg : {"facturas"}, rec : Facturas]

accept(req) ==
    /\ Cardinality(pending) + Cardinality(log) < MaxReqs
    /\ req \notin pending
    /\ pending' = pending \cup {req}
    /\ UNCHANGED <<dbs, resp, log, expVars, exp_writes>>

\* what log keeps of a served request: its outcome and the requests that were
\* waiting beside it
Served(req) == [req |-> req, status |-> resp'.status, peers |-> pending \ {req}]

serve_create_cliente(req) ==
    /\ req \in pending
    /\ req.reg = "clientes"
    /\ create_cliente_handler(req.rec)
    /\ pending' = pending \ {req}
    /\ log' = log \cup {Served(req)}
    /\ UNCHANGED <<db_users, db_facturas, db_productos, expVars>>
    /\ Observe

serve_create_factura(req) ==
    /\ req \in pending
    /\ req.reg = "facturas"
    /\ create_factura_handler(req.rec)
    /\ pending' = pending \ {req}
    /\ log' = log \cup {Served(req)}
    /\ UNCHANGED <<db_users, db_clientes, db_productos, expVars>>
    /\ Observe

NextRace ==
    \/ \E req \in CreateRequests : accept(req)
    \/ \E req \in pending : serve_create_cliente(req)
    \/ \E req \in pending : serve_create_factura(req)

SpecRace == Init /\ [][NextRace]_vars

\* ids a client may ask for: the ids in use and one that is never created
LookupIds == ClienteIds \cup {10, 999}

Next ==
    \/ \E cliente \in Clientes : create_cliente(cliente)
    \/ read_clientes
    \/ \E id \in LookupIds : read_cliente(id)
    \/ \E factura \in Facturas : create_factura(factura)
    \/ read_facturas
    \/ \E id \in LookupIds : read_factura(id)
    \/ \E producto \in Productos : create_producto(producto)
    \/ read_productos
    \/ \E id \in LookupIds : read_producto(id)

Spec == Init /\ [][Next]_vars

\* ----------------------------------------------------------------- claims

\* C1: in every registry, a create whose record.id is already present answers
\* 400 and leaves the stored record and every other entry of every registry
\* as they were.
C1_CreateExistingIdConflicts ==
    [][ /\ \A c \in Clientes : (create_cliente(c) /\ Has(db_clientes, c.id))
              => (resp'.status = 400 /\ dbs' = dbs)
        /\ \A f \in Facturas : (create_factura(f) /\ Has(db_facturas, f.id))
              => (resp'.status = 400 /\ dbs' = dbs)
        /\ \A p \in Productos : (create_producto(p) /\ Has(db_productos, p.id))
              => (resp'.status = 400 /\ dbs' = dbs) ]_vars

\* a create of a record that differs from the stored one was refused
C1_Witness ==
    /\ resp.op = "create_cliente" /\ resp.status = 400
    /\ Has(db_clientes, resp.arg.id) /\ Get(db_clientes, resp.arg.id) # resp.arg

\* C2: a register for an email that is absent answers 200 and stores the
\* user; one for an email that is present answers 400 and changes nothing in
\* the user store; a stored user stays stored, with the same id and hash,
\* whatever happens next.
C2_RegisterTwice ==
    [][ /\ \A u \in UserCreates, s \in Salts : register(u, s) =>
              IF Has(db_users, u.email)
              THEN resp'.status = 400 /\ db_users' = db_users
              ELSE /\ resp'.status = 200
                   /\ Has(db_users', u.email)
                   /\ Len(db_users') = Len(db_users) + 1
        /\ \A e \in Emails : Has(db_users, e) =>
              (Has(db_users', e) /\ Get(db_users', e) = Get(db_users, e)) ]_vars

\* a second register of a stored email, with another password, was refused
C2_Witness ==
    /\ resp.op = "register" /\ resp.status = 400
    /\ Has(db_users, resp.arg.email)
    /\ ~bcrypt_verify(resp.arg.password, Get(db_users, resp.arg.email).hashed_password)

\* C6: in every registry, get-by-id answers 404 when no record is stored under
\* the id and otherwise 200 with the record stored under it, and modifies no
\* registry.
C6_GetById ==
    [][ /\ \A id \in LookupIds : read_cliente(id) =>
              /\ dbs' = dbs
              /\ IF id \in Keys(db_clientes)
                 THEN resp'.status = 200 /\ resp'.body \in Clientes /\ resp'.body.id = id
                      /\ \E i \in 1..Len(db_clientes) : db_clientes[i] = [k |-> id, v |-> resp'.body]
                 ELSE resp'.status = 404
        /\ \A id \in LookupIds : read_factura(id) =>
              /\ dbs' = dbs
              /\ IF id \in Keys(db_facturas)
                 THEN resp'.status = 200 /\ resp'.body \in Facturas /\ resp'.body.id = id
                      /\ \E i \in 1..Len(db_facturas) : db_facturas[i] = [k |-> id, v |-> resp'.body]
                 ELSE resp'.status = 404
        /\ \A id \in LookupIds : read_producto(id) =>
              /\ dbs' = dbs
              /\ IF id \in Keys(db_productos)
                 THEN resp'.status = 200 /\ resp'.body \in Productos /\ resp'.body.id = id
                      /\ \E i \in 1..Len(db_productos) : db_productos[i] = [k |-> id, v |-> resp'.body]
                 ELSE resp'.status = 404 ]_vars

\* the scenario GET /facturas/999 with facturas stored under other ids
C6_Witness ==
    /\ resp.op = "read_factura" /\ resp.arg = 999 /\ resp.status = 404
    /\ Len(db_facturas) > 0

\* C7: a token request for a registered username answers 200 with a token
\* when the password is the registered one and 401 when it does not verify;
\* for an unregistered username it answers 401.
C7_TokenIssuance ==
    resp.op = "login_for_access_token" =>
        IF /\ Has(db_users, resp.arg.username)
           /\ bcrypt_verify(resp.arg.password,
                            Get(db_users, resp.arg.username).hashed_password)
        THEN resp.status = 200
        ELSE resp.status = 401

\* --- helpers of the CSV claims
InvoiceCount(reg, id) ==
    Cardinality({i \in 1..Len(reg.facturas) : reg.facturas[i].v.client_id = id})
FullName(c) == c.first_name \o <<" ">> \o c.last_name
ExpectedLine(reg, c) ==
    Str(c.id) \o <<",">> \o c.documento \o <<",">> \o FullName(c) \o <<",">>
    \o Str(InvoiceCount(reg, c.id)) \o <<"\n">>
RECURSIVE ExpectedLines(_, _)
ExpectedLines(reg, i) ==
    IF i > Len(reg.clientes) THEN <<>>
    ELSE ExpectedLine(reg, reg.clientes[i].v) \o ExpectedLines(reg, i + 1)
\* the CSV of one state of the registries
ExpectedCsv(reg) == HeaderLine \o ExpectedLines(reg, 1)

\* C3: a completed export holds the header row and then exactly one row per
\* client of the registry the handler read, in registry order, whose last cell
\* is the number of facturas whose client_id is that client's id.
C3_ExportRows ==
    exp_pc = "done" =>
        LET lines == splitlines(out) IN
        /\ Len(lines) = 1 + Len(exp_snap.clientes)
        /\ SplitOn(lines[1], ",") = headers
        /\ \A i \in 1..Len(exp_snap.clientes) :
              LET cells == SplitOn(lines[i + 1], ",")
                  c == exp_snap.clientes[i].v
              IN  /\ Len(cells) = 4
                  /\ cells[1] = Str(c.id)
                  /\ cells[2] = c.documento
                  /\ cells[3] = FullName(c)
                  /\ ParseInt(cells[4]).ok
                  /\ ParseInt(cells[4]).val = InvoiceCount(exp_snap, c.id)

\* the scenario row 1,D1,Ana Lee,1 next to a client without facturas and a
\* factura of no client
C3_Witness ==
    /\ exp_pc = "done"
    /\ \E i \in 1..Len(splitlines(out)) :
          splitlines(out)[i] = <<"1", ",", "D", "1", ",", "A", "n", "a", " ",
                                 "L", "e", "e", ",", "1">>
    /\ Len(exp_snap.clientes) = 2
    /\ \E i \in 1..Len(exp_snap.facturas) : exp_snap.facturas[i].v.client_id = 99

\* the clients that precede any malformed line were upserted, in file order,
\* and nothing else changed: per id, the last of them with that id is stored,
\* and an id none of them carries is as before
UpsertedExactly(cs) ==
    /\ Keys(db_clientes') = Keys(db_clientes) \cup {cs[j].id : j \in 1..Len(cs)}
    /\ \A id \in Keys(db_clientes') :
          IF \E j \in 1..Len(cs) : cs[j].id = id
          THEN \E j \in 1..Len(cs) :
                  /\ cs[j].id = id
                  /\ \A j2 \in (j + 1)..Len(cs) : cs[j2].id # id
                  /\ Get(db_clientes', id) = cs[j]
          ELSE Get(db_clientes', id) = Get(db_clientes, id)
    /\ <<db_users', db_facturas', db_productos'>> = <<db_users, db_facturas, db_productos>>

ClienteSeqs == SeqsUpTo(UploadClientes, MaxRows)
\* the files made of the lines of clients cs, as pairs <<cs, file>>
ClienteFiles == {<<cs, CsvFile(ClienteFields, [j \in 1..Len(cs) |-> ClienteCells(cs[j])])>> :
                    cs \in ClienteSeqs}
\* the files made of lines rows, as pairs <<rows, file>>
RowFiles == {<<rows, CsvFile(ClienteFields, rows)>> : rows \in UploadRowSeqs}
\* the step is an import of file
Imports(file) ==
    /\ resp'.op = "upload_clients_csv"
    /\ resp'.arg = file
    /\ upload_clients_csv(file)

\* C4: an import of a file of well-formed lines answers 200 and upserts every
\* line by its id: a stored id is overwritten, a new id is inserted, of several
\* lines with one id the last is kept, other clients are untouched.
C4_ImportUpserts ==
    [][ \A f \in ClienteFiles :
            Imports(f[2]) => (resp'.status = 200 /\ UpsertedExactly(f[1])) ]_vars

\* a file with two different lines for one id was imported next to another
\* client; the second line is what is stored
C4_Witness ==
    /\ resp.op = "upload_clients_csv" /\ resp.status = 200
    /\ \E f \in ClienteFiles :
          /\ resp.arg = f[2]
          /\ Len(f[1]) = 2 /\ f[1][1].id = f[1][2].id /\ f[1][1] # f[1][2]
          /\ Get(db_clientes, f[1][2].id) = f[1][2]
    /\ Len(db_clientes) = 2

\* C5 (as stated): importing a completed export into an empty registry gives
\* the clients that were exported, by id, documento and names.
Identity(clientes) ==
    {<<clientes[i].v.id, clientes[i].v.documento, FullName(clientes[i].v)>> :
        i \in 1..Len(clientes)}
C5_RoundTripRestores ==
    [][ (upload_exported /\ db_clientes = <<>>) =>
            Identity(db_clientes') = Identity(exp_snap.clientes) ]_vars

\* C5 (amended): importing a completed export stores nothing; it answers 200
\* when the export had no client and fails on the first data line otherwise.
C5_ExportIsNotImportable ==
    [][ upload_exported =>
            /\ dbs' = dbs
            /\ resp'.status = IF Len(exp_snap.clientes) = 0 THEN 200 ELSE 500
            /\ Len(exp_snap.clientes) > 0 => resp'.body = "ValidationError" ]_vars

\* an export of two clients was uploaded to a restarted, empty service
C5_Witness ==
    /\ resp.op = "upload_clients_csv" /\ resp.status = 500
    /\ exp_pc = "done" /\ resp.arg = out
    /\ Len(exp_snap.clientes) = 2
    /\ db_clientes = <<>>

\* C9 (as stated): an export of several clients during which the registries were written does not
\* come out as the CSV of the registries before those writes: rows of it show
\* the state after a write.
C9_InconsistentView ==
    (exp_pc = "done" /\ exp_writes > 0 /\ Len(exp_snap.clientes) > 1) =>
        out # ExpectedCsv(exp_snap)

\* C9 (amended): an export during which the registries were written holds
\* exactly the CSV of the registries as they were when its handler ran.
C9_SnapshotView ==
    (exp_pc = "done" /\ exp_writes > 0) => out = ExpectedCsv(exp_snap)

\* writes landed while a two-client export was streaming, and a row of it
\* would now read differently
C9_Witness ==
    /\ exp_pc = "done"
    /\ exp_writes > 0
    /\ Len(exp_snap.clientes) = 2
    /\ \E i \in 1..2 :
          ExpectedLine(Registries(db_clientes, db_facturas), db_clientes[i].v)
            # ExpectedLine(exp_snap, exp_snap.clientes[i].v)

IsMalformed(cells) == cells \in {BadIdCells, ShortCells}
ClienteOfCells(cells) == CHOOSE c \in UploadClientes : ClienteCells(c) = cells
\* line k is the first malformed line of rows
FirstMalformed(rows, k) ==
    /\ k \in 1..Len(rows)
    /\ IsMalformed(rows[k])
    /\ \A j \in 1..(k - 1) : ~IsMalformed(rows[j])

\* C10: when line k is the first malformed line of the file, the import fails
\* with a validation error, the lines before k have been upserted and stay,
\* and line k and the lines after it have changed nothing.
C10_ImportStopsAtBadRow ==
    [][ \A f \in RowFiles :
            Imports(f[2]) => \A k \in 1..Len(f[1]) : FirstMalformed(f[1], k) =>
                /\ resp'.status = 500
                /\ resp'.body = "ValidationError"
                /\ UpsertedExactly([j \in 1..(k - 1) |-> ClienteOfCells(f[1][j])]) ]_vars

\* an import into the empty registry failed at its second line and left the
\* client of its first line behind
C10_Witness ==
    /\ resp.op = "upload_clients_csv" /\ resp.status = 500
    /\ \E f \in RowFiles :
          /\ resp.arg = f[2]
          /\ FirstMalformed(f[1], 2)
          /\ Values(db_clientes) = <<ClienteOfCells(f[1][1])>>

\* --- helpers of the concurrency claim
\* two served requests that were waiting at the same time, for one id of one
\* registry, with different records
Concurrent(e1, e2) ==
    /\ e1.req.reg = e2.req.reg
    /\ e1.req.rec.id = e2.req.rec.id
    /\ e1.req.rec # e2.req.rec
    /\ (e2.req \in e1.peers \/ e1.req \in e2.peers)
StoredUnder(req) ==
    IF req.reg = "clientes" THEN Get(db_clientes, req.rec.id)
    ELSE Get(db_facturas, req.rec.id)

\* C8 (as stated): two concurrent creates with one id both pass the existence
\* check and both succeed.
C8_BothCreatesSucceed ==
    \A e1 \in log : \A e2 \in log :
        Concurrent(e1, e2) => (e1.status = 200 /\ e2.status = 200)

\* C8 (amended): of two concurrent creates with one id at most one succeeds,
\* the other is refused with 400, and the record of a successful create stays
\* stored: no write replaces another.
C8_CreatesDoNotInterleave ==
    /\ \A e1 \in log : \A e2 \in log :
          Concurrent(e1, e2) =>
              /\ ~(e1.status = 200 /\ e2.status = 200)
              /\ e1.status = 400 \/ e2.status = 400
    /\ \A e \in log : e.status = 200 => StoredUnder(e.req) = e.req.rec

\* two creates for one id waited together and both have been served
C8_Witness ==
    \E e1 \in log : \E e2 \in log :
        /\ Concurrent(e1, e2)
        /\ e1.status = 200 /\ e2.status = 400
        /\ StoredUnder(e2.req) = e1.req.rec

====
